---------------------------- MODULE Spec2Model ----------------------------
(***************************************************************************)
(* ffphotojoin: join_photos (src/src/lib.rs) as a state machine.           *)
(*                                                                         *)
(* One behaviour is one call of join_photos: the early returns, the fold   *)
(* that picks the common size, the fold that sums the canvas length, the   *)
(* resize_exact of the first photo into the canvas, the overlay fold and   *)
(* the return.  Each fold advances one photo per step.                     *)
(*                                                                         *)
(* Numbers keep the widths of the Rust code.                               *)
(*   u32: TLC's integers are 32 bits wide and signed, so a u32 is held as  *)
(*        the two's-complement reading of its 32 bits: 0 .. 2^31-1 stand   *)
(*        for themselves and v - 2^32 stands for v >= 2^31 (u32::MAX is    *)
(*        -1).  Order, addition and its carry are the unsigned ones.       *)
(*   f32: a value is NaN, +infinity, or m * 2^e with m = 0 or m odd and    *)
(*        m < 2^24 (a 24 bit significand); division and multiplication     *)
(*        round to nearest, ties to even, as IEEE 754 does.  Exponent      *)
(*        overflow and subnormals are outside the sizes modelled.          *)
(***************************************************************************)
EXTENDS Integers, Sequences, FiniteSets, TLC

\* Longest photo list drawn by Init.
MaxPhotos == 3

\* Largest width or height drawn by Init (0 is drawn too: zero-area photos).
MaxDim == 2

(***************************************************************************)
(* u32                                                                     *)
(***************************************************************************)

\* u32::MAX (0xFFFFFFFF), the seed of the ToSmallest fold.
U32MAX == -1

\* a < b as unsigned 32 bit numbers.
U32Less(a, b) == IF (a < 0) = (b < 0) THEN a < b ELSE b < 0

\* u32::min
U32Min(a, b) == IF U32Less(b, a) THEN b ELSE a

\* u32::max
U32Max(a, b) == IF U32Less(a, b) THEN b ELSE a

\* a + b does not fit in 32 bits (the carry out of the unsigned addition).
U32AddOverflows(a, b) ==
    \/ a < 0 /\ b < 0
    \/ (a < 0) # (b < 0) /\ a + b >= 0

\* The 32 bits of a + b.
U32WrappingAdd(a, b) == a + b

(***************************************************************************)
(* f32                                                                     *)
(***************************************************************************)

Pow2(k) == 2 ^ k

F32NaN == [cls |-> "nan", m |-> 0, e |-> 0]

F32Inf == [cls |-> "inf", m |-> 0, e |-> 0]

F32Zero == [cls |-> "fin", m |-> 0, e |-> 0]

\* m * 2^e with the factors of two moved from m to e (m odd).
RECURSIVE F32Reduce(_, _)
F32Reduce(m, e) ==
    IF m = 0 THEN F32Zero
    ELSE IF m % 2 = 0 THEN F32Reduce(m \div 2, e + 1)
    ELSE [cls |-> "fin", m |-> m, e |-> e]

\* n * 2^e (0 <= n < 2^31, exact) rounded to a 24 bit significand, nearest,
\* ties to even.  Above 26 bits the bit shifted out is kept as a sticky low
\* bit, so the last step sees the round bit and whether anything lay below.
RECURSIVE F32Round(_, _)
F32Round(n, e) ==
    IF n < Pow2(24) THEN F32Reduce(n, e)
    ELSE IF n < Pow2(25)
    THEN LET q == n \div 2
         IN  F32Reduce(IF n % 2 = 1 /\ q % 2 = 1 THEN q + 1 ELSE q, e + 1)
    ELSE IF n < Pow2(26)
    THEN LET q == n \div 4
             r == n % 4
         IN  F32Reduce(IF r = 3 \/ (r = 2 /\ q % 2 = 1) THEN q + 1 ELSE q, e + 2)
    ELSE LET q == n \div 2
         IN  F32Round(IF n % 2 = 1 /\ q % 2 = 0 THEN q + 1 ELSE q, e + 1)

\* `x as f32` for a u32 x; x >= 2^31 is halved first (sticky low bit kept).
U32ToF32(x) ==
    IF x >= 0 THEN F32Round(x, 0)
    ELSE LET h == (x \div 2) + Pow2(30) + Pow2(30)
         IN  F32Round(IF x % 2 = 1 /\ h % 2 = 0 THEN h + 1 ELSE h, 1)

\* Long division: (q + r/d) * 2^e, extended one bit at a time until q holds 24
\* bits or the division is exact, then rounded to nearest, ties to even.
RECURSIVE F32LongDiv(_, _, _, _)
F32LongDiv(q, r, d, e) ==
    IF r = 0 THEN F32Reduce(q, e)
    ELSE IF q < Pow2(23)
    THEN IF 2 * r >= d
         THEN F32LongDiv(2 * q + 1, 2 * r - d, d, e - 1)
         ELSE F32LongDiv(2 * q, 2 * r, d, e - 1)
    ELSE IF 2 * r > d \/ (2 * r = d /\ q % 2 = 1)
         THEN F32Reduce(q + 1, e)
         ELSE F32Reduce(q, e)

\* a / b for finite a, b >= 0.
F32Div(a, b) ==
    IF b.m = 0 THEN (IF a.m = 0 THEN F32NaN ELSE F32Inf)
    ELSE IF a.m = 0 THEN F32Zero
    ELSE F32LongDiv(a.m \div b.m, a.m % b.m, b.m, a.e - b.e)

\* a * b for a >= 0 of any class and finite b >= 0.  Exact product, then
\* rounded; the product of the significands stays below 2^31 for the sizes
\* modelled (b is a photo dimension).
F32Mul(a, b) ==
    IF a.cls = "nan" THEN F32NaN
    ELSE IF a.cls = "inf" THEN (IF b.m = 0 THEN F32NaN ELSE F32Inf)
    ELSE F32Round(a.m * b.m, a.e + b.e)

\* v * 2^k as a u32, saturating at u32::MAX (0 < v < 2^31, k >= 0).
RECURSIVE U32ShlSat(_, _)
U32ShlSat(v, k) ==
    IF k = 0 THEN v
    ELSE IF v < Pow2(30) THEN U32ShlSat(2 * v, k - 1)
    ELSE IF k = 1 THEN 2 * ((v - Pow2(30)) - Pow2(30))
    ELSE U32MAX

\* `x as u32` for an f32 x >= 0: truncates toward zero, saturates, NaN is 0.
F32ToU32(x) ==
    IF x.cls = "nan" THEN 0
    ELSE IF x.cls = "inf" THEN U32MAX
    ELSE IF x.m = 0 THEN 0
    ELSE IF x.e >= 0 THEN U32ShlSat(x.m, x.e)
    ELSE IF -x.e > 30 THEN 0
    ELSE x.m \div Pow2(-x.e)

(***************************************************************************)
(* Types of src/src/lib.rs and the image crate's operations it calls       *)
(***************************************************************************)

\* enum Direction
Direction == {"Horizontal", "Vertical"}

\* enum Sizing
Sizing == {"ToSmallest", "ToLargest"}

\* image::imageops::FilterType, the values the command line can select.
FilterType == {"Nearest", "Triangle", "CatmullRom", "Gaussian", "Lanczos3"}

\* struct PhotoJoinOptions
PhotoJoinOptions == [direction : Direction, sizing : Sizing, filter : FilterType]

\* A DynamicImage: its size and its pixel content.  The content is the list
\* of layers it was built from, bottom first: the decoded photo src, resampled
\* with filter to w x h and placed with its top left corner at (x, y).
DecodedImage(i, w, h) ==
    [width |-> w, height |-> h,
     pixels |-> <<[src |-> i, filter |-> "decoded", x |-> 0, y |-> 0,
                   w |-> w, h |-> h]>>]

\* No image (a variable not yet assigned).
NoImage == [width |-> 0, height |-> 0, pixels |-> <<>>]

\* DynamicImage::resize_exact and imageops::resize: the photo resampled to
\* exactly nwidth x nheight with the given filter.
Resize(img, nwidth, nheight, filter) ==
    [width |-> nwidth, height |-> nheight,
     pixels |-> <<[src |-> img.pixels[1].src, filter |-> filter,
                   x |-> 0, y |-> 0, w |-> nwidth, h |-> nheight]>>]

\* imageops::overlay(bottom, top, x, y): top drawn over bottom at (x, y);
\* bottom keeps its size.
Overlay(bottom, top, x, y) ==
    [bottom EXCEPT !.pixels =
        Append(@, [top.pixels[1] EXCEPT !.x = x, !.y = y])]

(***************************************************************************)
(* The helpers and closures of join_photos                                 *)
(***************************************************************************)

\* Mutant of PerpSeed: the ToSmallest fold seeded with 0 instead of u32::MAX.
PerpSeed_ZeroSeed(sizing) == 0

\* The seed of the fold that computes perpendicular_size.
PerpSeed(sizing) == IF sizing = "ToSmallest" THEN U32MAX ELSE 0

\* dir_size of the closure of that fold: the photo's width for a Horizontal
\* join and its height for a Vertical join.
DirSize(direction, img) ==
    IF direction = "Horizontal" THEN img.width ELSE img.height

\* One step of the fold that computes perpendicular_size.
PerpCombine(opts, size, img) ==
    IF opts.sizing = "ToSmallest"
    THEN U32Min(size, DirSize(opts.direction, img))
    ELSE U32Max(size, DirSize(opts.direction, img))

\* get_scale_factor: perpendicular_size divided by the photo's height for a
\* Horizontal join and by its width for a Vertical join.
get_scale_factor(perp_size, direction, img) ==
    F32Div(U32ToF32(perp_size),
           U32ToF32(IF direction = "Horizontal" THEN img.height ELSE img.width))

\* The term the join_size fold adds for one photo.
JoinTerm(perp_size, direction, img) ==
    F32ToU32(F32Mul(get_scale_factor(perp_size, direction, img),
                    U32ToF32(IF direction = "Horizontal"
                             THEN img.width ELSE img.height)))

\* get_size: <<w, h>> of the photo as pasted.
get_size(perp_size, direction, img) ==
    LET scale_factor == get_scale_factor(perp_size, direction, img)
    IN  IF direction = "Horizontal"
        THEN <<F32ToU32(F32Mul(scale_factor, U32ToF32(img.width))), perp_size>>
        ELSE <<perp_size, F32ToU32(F32Mul(scale_factor, U32ToF32(img.height)))>>

\* <<x, y>> at which the overlay fold pastes when its offset is pos.
PastePoint(direction, pos) ==
    IF direction = "Horizontal" THEN <<pos, 0>> ELSE <<0, pos>>

\* What the overlay fold adds to pos for a photo pasted as <<w, h>>.
PasteAdvance(direction, wh) ==
    IF direction = "Vertical" THEN wh[2] ELSE wh[1]

\* <<width, height>> passed to resize_exact for the canvas.
CanvasSize(direction, perp_size, joinsz) ==
    IF direction = "Horizontal"
    THEN <<joinsz, perp_size>>
    ELSE <<perp_size, joinsz>>

(***************************************************************************)
(* State                                                                   *)
(***************************************************************************)

VARIABLES
    photos,             \* the argument photos
    options,            \* the argument options
    overflow_checks,    \* the build: u32 `+` panics on overflow (debug
                        \* profile) or wraps (release profile)
    pc,                 \* where the call is
    idx,                \* the photo the running fold takes next
    size,               \* the accumulator of the running size fold
    perpendicular_size,
    join_size,
    output_img,
    pos,                \* the accumulator of the overlay fold
    result,             \* "none", "Err(NoImagesProvided)", "Ok", "panic"
    ret,                \* the image inside Ok
    stdout              \* the lines printed

vars == <<photos, options, overflow_checks, pc, idx, size, perpendicular_size,
          join_size, output_img, pos, result, ret, stdout>>

\* One printed line; the unused numbers are 0.
Line(ev, a, b, c, d) == [ev |-> ev, a |-> a, b |-> b, c |-> c, d |-> d]

\* The sizes <<width, height>> Init draws photos from.
Sizes == (0..MaxDim) \X (0..MaxDim)

\* The photo lists of length n with every size taken from sizes; the photo at
\* position i has content i.
PhotoLists(n, sizes) ==
    {[i \in 1..n |-> DecodedImage(i, f[i][1], f[i][2])] : f \in [1..n -> sizes]}

\* The entry of join_photos with photos drawn from lists.
InitWith(lists) ==
    /\ photos \in lists
    /\ options \in PhotoJoinOptions
    /\ overflow_checks \in BOOLEAN
    /\ pc = "start"
    /\ idx = 0
    /\ size = 0
    /\ perpendicular_size = 0
    /\ join_size = 0
    /\ output_img = NoImage
    /\ pos = 0
    /\ result = "none"
    /\ ret = NoImage
    /\ stdout = <<>>

Init == InitWith(UNION {PhotoLists(n, Sizes) : n \in 0..MaxPhotos})

(***************************************************************************)
(* Steps of join_photos                                                    *)
(***************************************************************************)

\* Mutant of ReturnEmpty: the is_empty test left out, so the empty list
\* reaches `.next().unwrap()` of the next test and panics.
ReturnEmpty_Unwrap ==
    /\ pc = "start"
    /\ Len(photos) = 0
    /\ result' = "panic"
    /\ pc' = "panicked"
    /\ UNCHANGED <<photos, options, overflow_checks, idx, size,
                   perpendicular_size, join_size, output_img, pos, ret, stdout>>

\* if photos.is_empty() { return Err(NoImagesProvided); }
ReturnEmpty ==
    /\ pc = "start"
    /\ Len(photos) = 0
    /\ result' = "Err(NoImagesProvided)"
    /\ pc' = "returned"
    /\ UNCHANGED <<photos, options, overflow_checks, idx, size,
                   perpendicular_size, join_size, output_img, pos, ret, stdout>>

\* Mutant of ReturnSingle: the single photo is passed through the selected
\* filter at its own size before it is returned.
ReturnSingle_Resampled ==
    /\ pc = "start"
    /\ Len(photos) = 1
    /\ result' = "Ok"
    /\ ret' = Resize(photos[1], photos[1].width, photos[1].height, options.filter)
    /\ pc' = "returned"
    /\ UNCHANGED <<photos, options, overflow_checks, idx, size,
                   perpendicular_size, join_size, output_img, pos, stdout>>

\* if photos.len() == 1 { return Ok(photos.into_iter().next().unwrap()); }
ReturnSingle ==
    /\ pc = "start"
    /\ Len(photos) = 1
    /\ result' = "Ok"
    /\ ret' = photos[1]
    /\ pc' = "returned"
    /\ UNCHANGED <<photos, options, overflow_checks, idx, size,
                   perpendicular_size, join_size, output_img, pos, stdout>>

\* println!("Joining {} photos"); the perpendicular_size fold starts.
BeginJoin ==
    /\ pc = "start"
    /\ Len(photos) >= 2
    /\ stdout' = Append(stdout, Line("Joining", Len(photos), 0, 0, 0))
    /\ size' = PerpSeed(options.sizing)
    /\ idx' = 1
    /\ pc' = "perp_fold"
    /\ UNCHANGED <<photos, options, overflow_checks, perpendicular_size,
                   join_size, output_img, pos, result, ret>>

\* One photo of the perpendicular_size fold; after the last one the result
\* is bound and the join_size fold starts at 0u32.
PerpFoldStep ==
    /\ pc = "perp_fold"
    /\ LET next == PerpCombine(options, size, photos[idx])
       IN  IF idx = Len(photos)
           THEN /\ perpendicular_size' = next
                /\ size' = 0
                /\ idx' = 1
                /\ pc' = "join_fold"
           ELSE /\ size' = next
                /\ idx' = idx + 1
                /\ UNCHANGED <<perpendicular_size, pc>>
    /\ UNCHANGED <<photos, options, overflow_checks, join_size, output_img,
                   pos, result, ret, stdout>>

\* One photo of the join_size fold: size + (scale * dim as f32) as u32.  After
\* the last one join_size is bound and the size is printed.
JoinFoldStep ==
    /\ pc = "join_fold"
    /\ LET term == JoinTerm(perpendicular_size, options.direction, photos[idx])
       IN  IF overflow_checks /\ U32AddOverflows(size, term)
           THEN /\ result' = "panic"
                /\ pc' = "panicked"
                /\ UNCHANGED <<size, idx, join_size, stdout>>
           ELSE LET next == U32WrappingAdd(size, term)
                IN  IF idx = Len(photos)
                    THEN /\ join_size' = next
                         /\ stdout' = Append(stdout,
                               IF options.direction = "Horizontal"
                               THEN Line("Determined", perpendicular_size, next, 0, 0)
                               ELSE Line("Determined", next, perpendicular_size, 0, 0))
                         /\ pc' = "resize_first"
                         /\ UNCHANGED <<size, idx, result>>
                    ELSE /\ size' = next
                         /\ idx' = idx + 1
                         /\ UNCHANGED <<join_size, stdout, pc, result>>
    /\ UNCHANGED <<photos, options, overflow_checks, perpendicular_size,
                   output_img, pos, ret>>

\* let mut output_img = photos.first().unwrap().resize_exact(.., Nearest);
\* the overlay fold starts at 0u32.
ResizeFirst ==
    /\ pc = "resize_first"
    /\ LET wh == CanvasSize(options.direction, perpendicular_size, join_size)
       IN  output_img' = Resize(photos[1], wh[1], wh[2], "Nearest")
    /\ pos' = 0
    /\ idx' = 1
    /\ pc' = "overlay"
    /\ UNCHANGED <<photos, options, overflow_checks, size, perpendicular_size,
                   join_size, result, ret, stdout>>

\* One photo of the overlay fold: sized by get_size, resized with the
\* selected filter, overlaid at (x, y), printed, and pos advanced.
OverlayStep ==
    /\ pc = "overlay"
    /\ LET img == photos[idx]
           wh == get_size(perpendicular_size, options.direction, img)
           xy == PastePoint(options.direction, pos)
           adv == PasteAdvance(options.direction, wh)
       IN  /\ output_img' = Overlay(output_img,
                                    Resize(img, wh[1], wh[2], options.filter),
                                    xy[1], xy[2])
           /\ stdout' = Append(stdout, Line("Overlayed", xy[1], xy[2], wh[1], wh[2]))
           /\ IF overflow_checks /\ U32AddOverflows(pos, adv)
              THEN /\ result' = "panic"
                   /\ pc' = "panicked"
                   /\ UNCHANGED <<pos, idx>>
              ELSE /\ pos' = U32WrappingAdd(pos, adv)
                   /\ idx' = idx + 1
                   /\ pc' = IF idx = Len(photos) THEN "return" ELSE "overlay"
                   /\ UNCHANGED result
    /\ UNCHANGED <<photos, options, overflow_checks, size, perpendicular_size,
                   join_size, ret>>

\* Ok(output_img)
ReturnJoined ==
    /\ pc = "return"
    /\ result' = "Ok"
    /\ ret' = output_img
    /\ pc' = "returned"
    /\ UNCHANGED <<photos, options, overflow_checks, idx, size,
                   perpendicular_size, join_size, output_img, pos, stdout>>

Next ==
    \/ ReturnEmpty
    \/ ReturnSingle
    \/ BeginJoin
    \/ PerpFoldStep
    \/ JoinFoldStep
    \/ ResizeFirst
    \/ OverlayStep
    \/ ReturnJoined

Spec == Init /\ [][Next]_vars

(***************************************************************************)
(* Further specifications: the same call on other families of inputs       *)
(***************************************************************************)

\* Photo lists whose photos all have one size (every empty and every
\* singleton list is such a list).
SameSize(ps) ==
    \A i, j \in 1..Len(ps) :
        ps[i].width = ps[j].width /\ ps[i].height = ps[j].height

InitSameSize ==
    InitWith(UNION {PhotoLists(n, {sz}) : n \in 0..MaxPhotos, sz \in Sizes})

SpecSameSize == InitSameSize /\ [][Next]_vars

\* The photo sizes of the specification's scenario B, width x height.
ScenarioSizes == {<<80, 100>>, <<40, 100>>}

InitScenario ==
    InitWith(UNION {PhotoLists(n, ScenarioSizes) : n \in 0..MaxPhotos})

SpecScenario == InitScenario /\ [][Next]_vars

(***************************************************************************)
(* join_photos as a function, folding with the same steps                  *)
(***************************************************************************)

\* photos.iter().fold(seed, ..) over the first k photos.
RECURSIVE PerpFold(_, _, _)
PerpFold(ps, opts, k) ==
    IF k = 0 THEN PerpSeed(opts.sizing)
    ELSE PerpCombine(opts, PerpFold(ps, opts, k - 1), ps[k])

\* photos.iter().fold(0u32, ..) over the first k photos; ok is FALSE once an
\* addition has panicked.
RECURSIVE JoinFold(_, _, _, _)
JoinFold(ps, perp_size, direction, k) ==
    IF k = 0 THEN [ok |-> TRUE, v |-> 0]
    ELSE LET prev == JoinFold(ps, perp_size, direction, k - 1)
             term == JoinTerm(perp_size, direction, ps[k])
         IN  IF ~prev.ok THEN prev
             ELSE IF overflow_checks /\ U32AddOverflows(prev.v, term)
             THEN [ok |-> FALSE, v |-> prev.v]
             ELSE [ok |-> TRUE, v |-> U32WrappingAdd(prev.v, term)]

\* photos.into_iter().fold(0u32, ..) over the first k photos, drawing on canvas.
RECURSIVE OverlayFold(_, _, _, _, _)
OverlayFold(ps, perp_size, opts, canvas, k) ==
    IF k = 0 THEN [ok |-> TRUE, pos |-> 0, img |-> canvas]
    ELSE LET prev == OverlayFold(ps, perp_size, opts, canvas, k - 1)
             wh == get_size(perp_size, opts.direction, ps[k])
             xy == PastePoint(opts.direction, prev.pos)
             adv == PasteAdvance(opts.direction, wh)
             drawn == Overlay(prev.img,
                              Resize(ps[k], wh[1], wh[2], opts.filter),
                              xy[1], xy[2])
         IN  IF ~prev.ok THEN prev
             ELSE IF overflow_checks /\ U32AddOverflows(prev.pos, adv)
             THEN [ok |-> FALSE, pos |-> prev.pos, img |-> drawn]
             ELSE [ok |-> TRUE, pos |-> U32WrappingAdd(prev.pos, adv), img |-> drawn]

\* What join_photos(ps, opts) comes to.
join_photos(ps, opts) ==
    IF Len(ps) = 0 THEN [result |-> "Err(NoImagesProvided)", ret |-> NoImage]
    ELSE IF Len(ps) = 1 THEN [result |-> "Ok", ret |-> ps[1]]
    ELSE LET perp == PerpFold(ps, opts, Len(ps))
             js == JoinFold(ps, perp, opts.direction, Len(ps))
             wh == CanvasSize(opts.direction, perp, js.v)
             canvas == Resize(ps[1], wh[1], wh[2], "Nearest")
             ov == OverlayFold(ps, perp, opts, canvas, Len(ps))
         IN  IF js.ok /\ ov.ok
             THEN [result |-> "Ok", ret |-> ov.img]
             ELSE [result |-> "panic", ret |-> NoImage]

(***************************************************************************)
(* Vocabulary of the claims                                                *)
(***************************************************************************)

Terminated == pc \in {"returned", "panicked"}

\* The perpendicular_size fold has finished.
PerpComputed == Len(photos) >= 2 /\ pc \notin {"start", "perp_fold"}

\* The canvas has been allocated.
CanvasAllocated == pc \in {"overlay", "return"} \/ (pc \in {"returned", "panicked"} /\ output_img # NoImage)

\* The dimension of an image perpendicular to the join direction: the height
\* for a Horizontal join, the width for a Vertical join.
PerpendicularDim(direction, img) ==
    IF direction = "Horizontal" THEN img.height ELSE img.width

\* The dimension of an image along the join direction.
JoinDim(direction, img) ==
    IF direction = "Horizontal" THEN img.width ELSE img.height

\* Least and greatest element of a non-empty set of u32 values.
U32Least(S) == CHOOSE a \in S : \A b \in S : ~U32Less(b, a)

U32Greatest(S) == CHOOSE a \in S : \A b \in S : ~U32Less(a, b)

\* The options with the other sizing.
OtherSizing(opts) ==
    [opts EXCEPT !.sizing = IF @ = "ToSmallest" THEN "ToLargest" ELSE "ToSmallest"]

\* The number of photos pasted so far (the canvas's first layer is the base).
Pasted == IF output_img = NoImage THEN 0 ELSE Len(output_img.pixels) - 1

\* The k-th paste, k in 1..Pasted.
Paste(k) == output_img.pixels[k + 1]

\* Offset and extent of a paste along the join direction.
PasteOffset(l) == IF options.direction = "Horizontal" THEN l.x ELSE l.y

PasteCross(l) == IF options.direction = "Horizontal" THEN l.y ELSE l.x

PasteExtent(l) == IF options.direction = "Horizontal" THEN l.w ELSE l.h

\* The sum of the join-axis extents of the first k pastes is below 2^32, so
\* that the u32 sum is the sum.
RECURSIVE ExtentsFit(_)
ExtentsFit(k) ==
    IF k = 0 THEN TRUE
    ELSE /\ ExtentsFit(k - 1)
         /\ ~U32AddOverflows(JoinFold(photos, perpendicular_size, options.direction, k - 1).v,
                             JoinTerm(perpendicular_size, options.direction, photos[k]))

\* The u32 sum of truncate(scale * join_dim) over the first k photos.
RECURSIVE ExtentSum(_)
ExtentSum(k) ==
    IF k = 0 THEN 0
    ELSE U32WrappingAdd(ExtentSum(k - 1),
                        JoinTerm(perpendicular_size, options.direction, photos[k]))

(***************************************************************************)
(* C1                                                                      *)
(***************************************************************************)

\* C1: join_photos of an empty list returns Err(NoImagesProvided), for every
\* direction, sizing and filter, and nothing else has happened by then: no
\* fold has started, no size is computed, no canvas exists, nothing is drawn
\* or printed.
C1_EmptyFails ==
    (Len(photos) = 0 /\ pc # "start") =>
        /\ pc = "returned"
        /\ result = "Err(NoImagesProvided)"
        /\ ret = NoImage
        /\ output_img = NoImage
        /\ idx = 0 /\ size = 0 /\ pos = 0
        /\ perpendicular_size = 0 /\ join_size = 0
        /\ stdout = <<>>

\* C1 witness: the call on an empty list has returned its error.
C1_Witness ==
    /\ Len(photos) = 0
    /\ pc = "returned"
    /\ result = "Err(NoImagesProvided)"
    /\ options.sizing = "ToLargest"
    /\ options.filter = "Lanczos3"

(***************************************************************************)
(* C2                                                                      *)
(***************************************************************************)

\* C2: join_photos of one image returns Ok of that very image (same width,
\* height and pixels), for every direction, sizing and filter, having computed
\* no size, resized nothing and drawn nothing.
C2_SingletonUnchanged ==
    (Len(photos) = 1 /\ pc # "start") =>
        /\ pc = "returned"
        /\ result = "Ok"
        /\ ret = photos[1]
        /\ ret.pixels = <<[src |-> 1, filter |-> "decoded", x |-> 0, y |-> 0,
                           w |-> photos[1].width, h |-> photos[1].height]>>
        /\ output_img = NoImage
        /\ idx = 0 /\ size = 0 /\ pos = 0
        /\ perpendicular_size = 0 /\ join_size = 0
        /\ stdout = <<>>

\* C2 witness: a non-square single photo has been returned under ToLargest.
C2_Witness ==
    /\ Len(photos) = 1
    /\ pc = "returned"
    /\ result = "Ok"
    /\ photos[1].width = 1 /\ photos[1].height = 2
    /\ options.sizing = "ToLargest"

(***************************************************************************)
(* C3                                                                      *)
(***************************************************************************)

\* C3: for two or more images the common size perpendicular_size is the least
\* (ToSmallest) or the greatest (ToLargest) of the images' dimensions
\* perpendicular to the join direction: heights for Horizontal, widths for
\* Vertical.
C3_PerpIsExtremeOfPerpendicularDims ==
    PerpComputed =>
        LET dims == {PerpendicularDim(options.direction, photos[i]) : i \in 1..Len(photos)}
        IN  perpendicular_size =
                IF options.sizing = "ToSmallest" THEN U32Least(dims) ELSE U32Greatest(dims)

(***************************************************************************)
(* C4                                                                      *)
(***************************************************************************)

\* C4: for two or more images the canvas's size along the join direction is
\* the sum over all images of truncate(scale * join_dim), the offset pos after
\* the last paste is that same number, and no image is pasted past the end of
\* the canvas.
C4_CanvasIsSumOfExtents ==
    (Len(photos) >= 2 /\ CanvasAllocated) =>
        /\ ExtentsFit(Len(photos))
        /\ JoinDim(options.direction, output_img) = ExtentSum(Len(photos))
        /\ \A k \in 1..Pasted :
              /\ ~U32AddOverflows(PasteOffset(Paste(k)), PasteExtent(Paste(k)))
              /\ ~U32Less(JoinDim(options.direction, output_img),
                          U32WrappingAdd(PasteOffset(Paste(k)), PasteExtent(Paste(k))))
        /\ (pc \in {"return", "returned"} =>
              pos = JoinDim(options.direction, output_img))

(***************************************************************************)
(* C5                                                                      *)
(***************************************************************************)

\* C5: images are pasted in input order; the k-th is pasted at the offset that
\* is the sum of the scaled join-axis extents of the images before it, at
\* (pos, 0) for Horizontal and (0, pos) for Vertical, the first at 0; so each
\* image starts exactly where the one before it ends.
C5_PastedInOrderContiguously ==
    \A k \in 1..Pasted :
        /\ Paste(k).src = k
        /\ PasteCross(Paste(k)) = 0
        /\ ExtentsFit(k - 1)
        /\ PasteOffset(Paste(k)) = ExtentSum(k - 1)
        /\ PasteExtent(Paste(k)) = JoinTerm(perpendicular_size, options.direction, photos[k])

(***************************************************************************)
(* C6                                                                      *)
(***************************************************************************)

\* C6: for every non-empty list join_photos ends by returning an image; for
\* two or more images its dimension perpendicular to the join direction is the
\* perpendicular_size the fold computed.
C6_ReturnsImageOfPerpSize ==
    (Len(photos) >= 1 /\ Terminated) =>
        /\ result = "Ok"
        /\ Len(photos) >= 2 =>
              PerpendicularDim(options.direction, ret) = perpendicular_size

(***************************************************************************)
(* C7                                                                      *)
(***************************************************************************)

\* C7: scenario B.  80x100 and 40x100 joined Vertical, ToSmallest: the common
\* size is 40, the canvas is 40 wide and 150 high, the first image is pasted
\* at (0,0) as 40x50 and the second at (0,50) as 40x100.
C7_ScenarioB ==
    ( /\ Len(photos) = 2
      /\ photos[1].width = 80 /\ photos[1].height = 100
      /\ photos[2].width = 40 /\ photos[2].height = 100
      /\ options.direction = "Vertical"
      /\ options.sizing = "ToSmallest" ) =>
        /\ PerpComputed => perpendicular_size = 40
        /\ CanvasAllocated => output_img.width = 40 /\ output_img.height = 150
        /\ Pasted >= 1 =>
              Paste(1).x = 0 /\ Paste(1).y = 0 /\ Paste(1).w = 40 /\ Paste(1).h = 50
        /\ Pasted >= 2 =>
              Paste(2).x = 0 /\ Paste(2).y = 50 /\ Paste(2).w = 40 /\ Paste(2).h = 100
        /\ Terminated => result = "Ok"

(***************************************************************************)
(* C8                                                                      *)
(***************************************************************************)

\* C8: on two or more images of which some has width 0 or height 0,
\* join_photos does not crash: it ends by returning an image.
C8_ZeroAreaDoesNotCrash ==
    ( /\ Len(photos) >= 2
      /\ \E i \in 1..Len(photos) : photos[i].width = 0 \/ photos[i].height = 0 ) =>
        /\ pc # "panicked"
        /\ Terminated => result = "Ok"

(***************************************************************************)
(* C9                                                                      *)
(***************************************************************************)

\* C9: scenario C.  On images that all have one size, the call computes the
\* same perpendicular_size and the same join_size and ends with the same
\* result (the same canvas with the same pastes) as join_photos does with the
\* other sizing and the same direction, filter and images.
C9_SameSizeSizingIrrelevant ==
    SameSize(photos) =>
        LET other == OtherSizing(options)
            perp == PerpFold(photos, other, Len(photos))
        IN  /\ PerpComputed => perpendicular_size = perp
            /\ (Len(photos) >= 2 /\ CanvasAllocated) =>
                  /\ join_size = JoinFold(photos, perp, other.direction, Len(photos)).v
                  /\ output_img.pixels[1] =
                        join_photos(photos, other).ret.pixels[1]
            /\ Terminated =>
                  [result |-> result, ret |-> ret] = join_photos(photos, other)

\* C9 witness: three equal, non-square, non-empty photos have been joined.
C9_Witness ==
    /\ Len(photos) = 3
    /\ SameSize(photos)
    /\ photos[1].width = 2 /\ photos[1].height = 1
    /\ pc = "returned"
    /\ result = "Ok"
    /\ Pasted = 3

(***************************************************************************)
(* C10                                                                     *)
(***************************************************************************)

\* C10: for two or more images with non-zero dimensions, under ToSmallest no
\* image is pasted larger than it is, and under ToLargest none is pasted
\* smaller than it is.
C10_SizingNeverCrossesOriginal ==
    ( /\ Len(photos) >= 2
      /\ \A i \in 1..Len(photos) : photos[i].width # 0 /\ photos[i].height # 0 ) =>
        \A k \in 1..Pasted :
            IF options.sizing = "ToSmallest"
            THEN /\ ~U32Less(photos[k].width, Paste(k).w)
                 /\ ~U32Less(photos[k].height, Paste(k).h)
            ELSE /\ ~U32Less(Paste(k).w, photos[k].width)
                 /\ ~U32Less(Paste(k).h, photos[k].height)

(***************************************************************************)
(* What holds of the two sums whether or not they overflow                 *)
(***************************************************************************)

\* After the last paste pos, join_size and the canvas's length along the join
\* direction are one u32 number, the wrapping sum of the photos' extents: the
\* two folds add the same terms in the same order.
JoinSizeEqualsFinalPos ==
    (Len(photos) >= 2 /\ pc \in {"return", "returned"}) =>
        /\ pos = join_size
        /\ join_size = JoinDim(options.direction, output_img)
        /\ join_size = ExtentSum(Len(photos))

\* A panic is an overflow of the u32 sum in a build that checks for it.
PanicOnlyOnOverflow ==
    pc = "panicked" =>
        overflow_checks /\ PerpComputed /\ ~ExtentsFit(Len(photos))

=============================================================================
